---- MODULE Spec2Model ----
(***************************************************************************)
(* The ContextualLLMChat workflow of the "Manipulating Memory at Runtime"  *)
(* notebook (src/unnamed/part_000): a workflow of three steps, init,       *)
(* update_memory_context and chat, over one Memory object.                 *)
(*                                                                         *)
(* The workflow (its events, its steps, _path_to_block_name, the           *)
(* construction of the static blocks and the configuration given to        *)
(* Memory.from_defaults) is translated from the notebook.  The Memory      *)
(* class itself (aput, the flush of the queue, aget) is not part of        *)
(* src/; it is modelled from spec.md, sections 3, 4.2, 4.4 and 4.5.        *)
(***************************************************************************)
EXTENDS Integers, Sequences, FiniteSets, TLC

(***************************************************************************)
(* Bounds of the model.                                                    *)
(***************************************************************************)
\* the most paths a run is given, new_file_paths and removed_file_paths
\* taken together
MaxPaths == 2
\* the same, for a run that may overlap with another
MaxOverlapPaths == 1
\* the same, for the runs of SpecLists, which all send the same user message
MaxListed == 3
\* memory_blocks is a plain list and can grow without limit; the model
\* stops adding at this length
MaxBlocks == 2

(***************************************************************************)
(* File paths.  A path is the sequence of its characters, so that the      *)
(* regular expression of _path_to_block_name and str.endswith are          *)
(* computed character by character.                                        *)
(***************************************************************************)
\* "a.b.py" and "a/b.py": two different text files
PathDotPy == <<"a", ".", "b", ".", "p", "y">>
PathDirPy == <<"a", "/", "b", ".", "p", "y">>
\* "i.png": an image
PathPng == <<"i", ".", "p", "n", "g">>
\* "x.exe": a file type the workflow does not handle
PathExe == <<"x", ".", "e", "x", "e">>

Paths == {PathDotPy, PathDirPy, PathPng, PathExe}

\* the characters the regular expression class \w matches, among those used
WordChars == {"a", "b", "e", "g", "i", "n", "p", "x", "y", "_"}

\* re.sub(r"[^\w-]", "_", file_path)
_path_to_block_name(file_path) ==
    [i \in 1..Len(file_path) |->
        IF file_path[i] \in WordChars \cup {"-"} THEN file_path[i] ELSE "_"]

\* str.endswith(suffix)
EndsWith(s, suffix) ==
    /\ Len(s) >= Len(suffix)
    /\ SubSeq(s, Len(s) - Len(suffix) + 1, Len(s)) = suffix

ImageSuffixes ==
    { <<".", "p", "n", "g">>, <<".", "j", "p", "g">>, <<".", "j", "p", "e", "g">> }

TextSuffixes ==
    { <<".", "t", "x", "t">>, <<".", "m", "d">>, <<".", "p", "y">>,
      <<".", "i", "p", "y", "n", "b">> }

IsImagePath(p) == \E suf \in ImageSuffixes : EndsWith(p, suf)

IsTextPath(p) == \E suf \in TextSuffixes : EndsWith(p, suf)

(***************************************************************************)
(* Static memory blocks.  The content of a text block is what f.read()     *)
(* returned when the block was built; the content of an image block is an  *)
(* ImageBlock that names the path.                                         *)
(***************************************************************************)
ImageStaticBlock(p) ==
    [name |-> _path_to_block_name(p),
     static_content |-> [type |-> "image", path |-> p]]

TextStaticBlock(p) ==
    [name |-> _path_to_block_name(p),
     static_content |-> [type |-> "text", read_from |-> p]]

BlockNames(blocks) == [i \in 1..Len(blocks) |-> blocks[i].name]

Range(s) == { s[i] : i \in 1..Len(s) }

(***************************************************************************)
(* The state.                                                              *)
(*   memory_blocks  self._memory.memory_blocks                             *)
(*   queue          the live message queue of the Memory object            *)
(*   pc             per run, the step its pending event waits for, or      *)
(*                  "flush" while the run waits in the append of init      *)
(*   ev             per run, the lists its ContextUpdateEvent carries      *)
(*   out            per run, how its last run ended: "none" (no run has    *)
(*                  ended), "error" (a step raised) or the response of its *)
(*                  ResponseEvent                                          *)
(*   last_step      a history variable: what the latest step was and, for  *)
(*                  an append, the message; for an update that returned,   *)
(*                  its event and the blocks before it; for a read, the    *)
(*                  context; while an append is taken turn by turn, the    *)
(*                  state of its flush pass and, when it has returned, the *)
(*                  turns handed on and the warnings recorded              *)
(*   history        a history variable, kept when history.recording is set *)
(*                  (SpecTwoRuns; recording multiplies the states of the   *)
(*                  other specifications): per run the arguments of its    *)
(*                  workflow.run, and the run whose update raised after it *)
(*                  had changed memory_blocks, as long as no update has    *)
(*                  returned since                                         *)
(***************************************************************************)
VARIABLES memory_blocks, queue, pc, ev, out, last_step, history

vars == <<memory_blocks, queue, pc, ev, out, last_step, history>>

Runs == {"run1", "run2"}

NoEvent == [new_file_paths |-> <<>>, removed_file_paths |-> <<>>]

\* the arguments of a run that has not been started
NoRun == [user_msg |-> "none", new_file_paths |-> <<>>, removed_file_paths |-> <<>>]

SeqsUpTo(S, n) == UNION { [1..k -> S] : k \in 0..n }

(***************************************************************************)
(* The configuration of the Memory object.                                 *)
(***************************************************************************)
token_limit == 60000
\* chat_history_token_ratio = 0.7, as a fraction
chat_history_token_ratio_num == 7
chat_history_token_ratio_den == 10
token_flush_size == 5000

\* a mutant: the memory is configured to insert as a separate system entry
insert_methodSystem == "system"

insert_method == "user"

(***************************************************************************)
(* Turns.  A user message is one of three texts, told apart by their       *)
(* estimated token count; the model answers with one of two texts.         *)
(***************************************************************************)
UserMsgs == {"short", "long", "huge"}

\* the user messages of the runs that overlap
OverlapMsgs == {"long"}

Responses == {"answer1", "answer2"}

\* TokenEstimator.estimate of a text (spec.md 4.1)
EstimateText(content) ==
    CASE content = "short" -> 20000
      [] content = "long" -> 40000
      [] content = "huge" -> 70000
      [] OTHER -> 10000

ChatMessage(role, content) == [role |-> role, content |-> content]

RECURSIVE EstimateQueue(_)
EstimateQueue(q) ==
    IF q = <<>> THEN 0 ELSE EstimateText(Head(q).content) + EstimateQueue(Tail(q))

\* the estimate of a rendered static block
EstimateBlock(block) ==
    IF block.static_content.type = "image" THEN 20000 ELSE 10000

RECURSIVE EstimateBlocks(_)
EstimateBlocks(blocks) ==
    IF blocks = <<>> THEN 0 ELSE EstimateBlock(Head(blocks)) + EstimateBlocks(Tail(blocks))

(***************************************************************************)
(* The flush of the queue (spec.md 4.4): turns leave the head of the queue *)
(* until the queue is below token_limit * chat_history_token_ratio or      *)
(* token_flush_size tokens have left in this pass.                         *)
(***************************************************************************)
BelowRatio(q) ==
    EstimateQueue(q) * chat_history_token_ratio_den
        < token_limit * chat_history_token_ratio_num

\* a mutant: the pass stops at the ratio only, whatever number of tokens left
FlushDoneRatioOnly(q, removed_tokens) ==
    q = <<>> \/ BelowRatio(q)

FlushDone(q, removed_tokens) ==
    q = <<>> \/ BelowRatio(q) \/ removed_tokens >= token_flush_size

RECURSIVE FlushPass(_, _, _)
FlushPass(q, flushed, removed_tokens) ==
    IF FlushDone(q, removed_tokens)
    THEN [queue |-> q, flushed |-> flushed]
    ELSE FlushPass(Tail(q), Append(flushed, Head(q)),
                   removed_tokens + EstimateText(Head(q).content))

OverBudget(q, blocks) == EstimateQueue(q) + EstimateBlocks(blocks) > token_limit

\* what settles after an append: the flush pass runs when the total is over
\* the budget
ManageQueue(q, blocks) ==
    IF OverBudget(q, blocks)
    THEN FlushPass(q, <<>>, 0)
    ELSE [queue |-> q, flushed |-> <<>>]

\* Memory.aput: the message is appended, then the queue settles
Aput(q, blocks, message) == ManageQueue(Append(q, message), blocks)

(***************************************************************************)
(* Memory.aget with insert_method = "user" (spec.md 4.4, 4.5): the blocks  *)
(* are rendered in insertion order (the static blocks of the workflow all  *)
(* have the default priority) and merged into the most recent user entry;  *)
(* the queue follows in chronological order.  With no user entry in the    *)
(* queue the rendered blocks make an entry of their own at the end.        *)
(***************************************************************************)
RenderBlocks(blocks) == [i \in 1..Len(blocks) |-> blocks[i].static_content]

Entry(message, memory) ==
    [role |-> message.role, content |-> message.content, memory |-> memory]

LastUserIndex(q) ==
    LET users == { i \in 1..Len(q) : q[i].role = "user" }
    IN  IF users = {} THEN 0 ELSE CHOOSE i \in users : \A j \in users : j <= i

InsertAsUser(memory, q) ==
    LET plain == [i \in 1..Len(q) |-> Entry(q[i], <<>>)]
        at == LastUserIndex(q)
    IN  IF memory = <<>> THEN plain
        ELSE IF at = 0
             THEN Append(plain, Entry(ChatMessage("user", ""), memory))
             ELSE [plain EXCEPT ![at] = Entry(q[at], memory)]

\* a mutant: a dynamic block, whose content follows the runs' results, is
\* rendered with the static ones
AgetDynamic(blocks, q) ==
    InsertAsUser(Append(RenderBlocks(blocks), [type |-> "dynamic", value |-> out]), q)

\* the other insert method: the rendered blocks make a separate leading
\* entry of role system
InsertAsSystem(memory, q) ==
    LET plain == [i \in 1..Len(q) |-> Entry(q[i], <<>>)]
    IN  IF memory = <<>> THEN plain
        ELSE <<Entry(ChatMessage("system", ""), memory)>> \o plain

Aget(blocks, q) ==
    IF insert_method = "user"
    THEN InsertAsUser(RenderBlocks(blocks), q)
    ELSE InsertAsSystem(RenderBlocks(blocks), q)

NoHistory(recording) ==
    [recording |-> recording, input |-> [r \in Runs |-> NoRun], partial_by |-> "none"]

\* history after workflow.run of r was called with these arguments
RecordRun(r, user_msg, new_file_paths, removed_file_paths) ==
    IF history.recording
    THEN [history EXCEPT !.input[r] =
             [user_msg |-> user_msg, new_file_paths |-> new_file_paths,
              removed_file_paths |-> removed_file_paths]]
    ELSE history

\* history after the update of r raised or returned, having changed
\* memory_blocks or not
RecordUpdate(r, raised, changed) ==
    IF history.recording
    THEN [history EXCEPT !.partial_by =
             IF ~raised THEN "none" ELSE IF changed THEN r ELSE @]
    ELSE history

RECURSIVE PendingNew(_, _)
PendingNew(f, S) ==
    IF S = {} THEN 0
    ELSE LET x == CHOOSE y \in S : TRUE
         IN  Len(f[x].new_file_paths) + PendingNew(f, S \ {x})

Init ==
    /\ memory_blocks = <<>>
    /\ queue = <<>>
    /\ pc = [r \in Runs |-> "idle"]
    /\ ev = [r \in Runs |-> NoEvent]
    /\ out = [r \in Runs |-> "none"]
    /\ last_step = [step |-> "none"]
    /\ history = NoHistory(FALSE)

(***************************************************************************)
(* step init: the user message is put into memory, then the run goes to    *)
(* update_memory_context when a list is not empty, else to chat.           *)
(***************************************************************************)
\* a mutant: init returns ChatEvent whatever the lists hold
initSkipsUpdate(r, user_msg, new_file_paths, removed_file_paths) ==
    /\ pc[r] = "idle"
    /\ Len(memory_blocks) + PendingNew(ev, Runs) + Len(new_file_paths) <= MaxBlocks
    /\ LET message == ChatMessage("user", user_msg)
           settled == Aput(queue, memory_blocks, message)
       IN  /\ queue' = settled.queue
           /\ last_step' = [step |-> "init", run |-> r, message |-> message]
    /\ pc' = [pc EXCEPT ![r] = "chat"]
    /\ ev' = [ev EXCEPT ![r] = [new_file_paths |-> new_file_paths,
                                removed_file_paths |-> removed_file_paths]]
    /\ out' = [out EXCEPT ![r] = "none"]
    /\ history' = RecordRun(r, user_msg, new_file_paths, removed_file_paths)
    /\ UNCHANGED memory_blocks

init(r, user_msg, new_file_paths, removed_file_paths) ==
    /\ pc[r] = "idle"
    /\ Len(memory_blocks) + PendingNew(ev, Runs) + Len(new_file_paths) <= MaxBlocks
    /\ LET message == ChatMessage("user", user_msg)
           settled == Aput(queue, memory_blocks, message)
       IN  /\ queue' = settled.queue
           /\ last_step' = [step |-> "init", run |-> r, message |-> message]
    /\ IF new_file_paths # <<>> \/ removed_file_paths # <<>>
       THEN /\ pc' = [pc EXCEPT ![r] = "update"]
            /\ ev' = [ev EXCEPT ![r] = [new_file_paths |-> new_file_paths,
                                        removed_file_paths |-> removed_file_paths]]
       ELSE /\ pc' = [pc EXCEPT ![r] = "chat"]
            /\ ev' = [ev EXCEPT ![r] = NoEvent]
    /\ out' = [out EXCEPT ![r] = "none"]
    /\ history' = RecordRun(r, user_msg, new_file_paths, removed_file_paths)
    /\ UNCHANGED memory_blocks

(***************************************************************************)
(* step update_memory_context.  The names of the blocks are read once,     *)
(* before the loop over new_file_paths; the path itself (not its block     *)
(* name) is looked up in them.                                             *)
(***************************************************************************)
RECURSIVE AddFiles(_, _, _)
AddFiles(blocks, current_block_names, new_file_paths) ==
    IF new_file_paths = <<>> THEN [blocks |-> blocks, raised |-> FALSE]
    ELSE LET new_file_path == Head(new_file_paths)
         IN  IF new_file_path \notin Range(current_block_names)
             THEN IF IsImagePath(new_file_path)
                  THEN AddFiles(Append(blocks, ImageStaticBlock(new_file_path)),
                                current_block_names, Tail(new_file_paths))
                  ELSE IF IsTextPath(new_file_path)
                  THEN AddFiles(Append(blocks, TextStaticBlock(new_file_path)),
                                current_block_names, Tail(new_file_paths))
                  ELSE [blocks |-> blocks, raised |-> TRUE]
             ELSE AddFiles(blocks, current_block_names, Tail(new_file_paths))

\* a mutant: the first block is dropped as well
RemoveFileDropsHead(blocks, removed_file_path) ==
    LET named_block == _path_to_block_name(removed_file_path)
    IN  IF blocks = <<>> THEN blocks
        ELSE SelectSeq(Tail(blocks), LAMBDA block : block.name # named_block)

\* a mutant: the path itself is compared with the names of the blocks
RemoveFileByPath(blocks, removed_file_path) ==
    SelectSeq(blocks, LAMBDA block : block.name # removed_file_path)

RemoveFile(blocks, removed_file_path) ==
    LET named_block == _path_to_block_name(removed_file_path)
    IN  SelectSeq(blocks, LAMBDA block : block.name # named_block)

RECURSIVE RemoveFiles(_, _)
RemoveFiles(blocks, removed_file_paths) ==
    IF removed_file_paths = <<>> THEN blocks
    ELSE RemoveFiles(RemoveFile(blocks, Head(removed_file_paths)),
                     Tail(removed_file_paths))

\* a mutant: the removals are applied first, the additions after them
update_memory_contextRemovesFirst(r) ==
    /\ pc[r] = "update"
    /\ LET removed == RemoveFiles(memory_blocks, ev[r].removed_file_paths)
           added == AddFiles(removed, BlockNames(memory_blocks),
                             ev[r].new_file_paths)
       IN  /\ history' = RecordUpdate(r, added.raised, added.blocks # memory_blocks)
           /\ memory_blocks' = added.blocks
           /\ IF added.raised
              THEN /\ pc' = [pc EXCEPT ![r] = "idle"]
                   /\ out' = [out EXCEPT ![r] = "error"]
                   /\ last_step' = [step |-> "update", run |-> r, raised |-> TRUE]
              ELSE /\ pc' = [pc EXCEPT ![r] = "chat"]
                   /\ out' = out
                   /\ last_step' = [step |-> "update", run |-> r, raised |-> FALSE,
                                    event |-> ev[r], before |-> memory_blocks]
    /\ ev' = [ev EXCEPT ![r] = NoEvent]
    /\ UNCHANGED queue

update_memory_context(r) ==
    /\ pc[r] = "update"
    /\ LET added == AddFiles(memory_blocks, BlockNames(memory_blocks),
                             ev[r].new_file_paths)
       IN  /\ history' = RecordUpdate(r, added.raised, added.blocks # memory_blocks)
           /\ IF added.raised
              THEN /\ memory_blocks' = added.blocks
                   /\ pc' = [pc EXCEPT ![r] = "idle"]
                   /\ out' = [out EXCEPT ![r] = "error"]
                   /\ last_step' = [step |-> "update", run |-> r, raised |-> TRUE]
              ELSE /\ memory_blocks' =
                          RemoveFiles(added.blocks, ev[r].removed_file_paths)
                   /\ pc' = [pc EXCEPT ![r] = "chat"]
                   /\ out' = out
                   /\ last_step' = [step |-> "update", run |-> r, raised |-> FALSE,
                                    event |-> ev[r], before |-> memory_blocks]
    /\ ev' = [ev EXCEPT ![r] = NoEvent]
    /\ UNCHANGED queue

(***************************************************************************)
(* step chat: the context is read, the model answers, the answer is the    *)
(* ResponseEvent of the run.  last_step keeps the context read and, when   *)
(* the step before was a chat step too (no append and no update of the     *)
(* blocks between the two reads), the context that step read, as a         *)
(* sequence of one element; with no such read the sequence is empty.       *)
(* The step catches nothing: when aget raises because the read of a block  *)
(* failed, the step raises, the run ends in the error and no ResponseEvent *)
(* is made.  A block whose content is fetched when it is read can fail     *)
(* (spec.md 4.2); of the blocks of the workflow, the text blocks hold      *)
(* their text and the image blocks hold the path of the file.              *)
(***************************************************************************)
BlockReadCanFail(block) == block.static_content.type = "image"

\* how Memory.aget can end for these blocks
ReadOutcomes(blocks) ==
    IF \E i \in 1..Len(blocks) : BlockReadCanFail(blocks[i])
    THEN {"ok", "BlockReadError"}
    ELSE {"ok"}

\* a mutant: the read settles the queue as an append does
chatFlushes(r) ==
    /\ pc[r] = "chat"
    /\ \E response \in Responses :
          out' = [out EXCEPT ![r] = response]
    /\ pc' = [pc EXCEPT ![r] = "idle"]
    /\ last_step' = [step |-> "chat", run |-> r,
                     chat_history |-> Aget(memory_blocks, queue),
                     previous_read |-> IF last_step.step = "chat"
                                       THEN <<last_step.chat_history>> ELSE <<>>]
    /\ queue' = ManageQueue(queue, memory_blocks).queue
    /\ UNCHANGED <<memory_blocks, ev, history>>

\* a mutant: when the read of a block fails, the blocks that cannot be
\* read are left out of the context and the model answers all the same
chatSkipsFailedBlock(r) ==
    /\ pc[r] = "chat"
    /\ \E read \in ReadOutcomes(memory_blocks), response \in Responses :
          IF read = "ok"
          THEN /\ out' = [out EXCEPT ![r] = response]
               /\ last_step' =
                     [step |-> "chat", run |-> r,
                      chat_history |-> Aget(memory_blocks, queue),
                      previous_read |-> IF last_step.step = "chat"
                                        THEN <<last_step.chat_history>> ELSE <<>>]
          ELSE /\ out' = [out EXCEPT ![r] = response]
               /\ last_step' =
                     [step |-> "read_failed", run |-> r,
                      chat_history |->
                          Aget(SelectSeq(memory_blocks,
                                         LAMBDA block : ~BlockReadCanFail(block)),
                               queue)]
    /\ pc' = [pc EXCEPT ![r] = "idle"]
    /\ UNCHANGED <<memory_blocks, queue, ev, history>>

chat(r) ==
    /\ pc[r] = "chat"
    /\ \E read \in ReadOutcomes(memory_blocks), response \in Responses :
          IF read = "ok"
          THEN /\ out' = [out EXCEPT ![r] = response]
               /\ last_step' =
                     [step |-> "chat", run |-> r,
                      chat_history |-> Aget(memory_blocks, queue),
                      previous_read |-> IF last_step.step = "chat"
                                        THEN <<last_step.chat_history>> ELSE <<>>]
          ELSE /\ out' = [out EXCEPT ![r] = "error"]
               /\ last_step' = [step |-> "read_failed", run |-> r]
    /\ pc' = [pc EXCEPT ![r] = "idle"]
    /\ UNCHANGED <<memory_blocks, queue, ev, history>>

(***************************************************************************)
(* The append of step init, turn by turn.  Memory.aput appends the message *)
(* and, when the total is over the budget, its flush pass takes one turn   *)
(* after the other from the head of the queue until FlushDone; a turn that *)
(* leaves goes to the blocks that absorb overflow or, when there is none,  *)
(* is dropped and a warning is recorded for it (spec.md 4.4).  The blocks  *)
(* of the workflow are StaticMemoryBlocks, which ignore the turns.         *)
(* Between init_aput and init_return the run waits in aput: pc is "flush"  *)
(* and last_step holds the state of the pass.                              *)
(***************************************************************************)
\* a block that takes the turns a flush removes
Absorbs(block) == "static_content" \notin DOMAIN block

HasAbsorber(blocks) == \E i \in 1..Len(blocks) : Absorbs(blocks[i])

init_aput(r, user_msg, new_file_paths, removed_file_paths) ==
    /\ pc[r] = "idle"
    /\ Len(memory_blocks) + PendingNew(ev, Runs) + Len(new_file_paths) <= MaxBlocks
    /\ LET message == ChatMessage("user", user_msg)
       IN  /\ queue' = Append(queue, message)
           /\ last_step' = [step |-> "aput", run |-> r, message |-> message,
                            over |-> OverBudget(Append(queue, message), memory_blocks),
                            removed_tokens |-> 0,
                            absorbed |-> <<>>, warnings |-> <<>>]
    /\ pc' = [pc EXCEPT ![r] = "flush"]
    /\ ev' = [ev EXCEPT ![r] = [new_file_paths |-> new_file_paths,
                                removed_file_paths |-> removed_file_paths]]
    /\ out' = [out EXCEPT ![r] = "none"]
    /\ history' = RecordRun(r, user_msg, new_file_paths, removed_file_paths)
    /\ UNCHANGED memory_blocks

\* a mutant: the pass leaves a turn that alone exceeds the budget where it is
flush_turnKeepsOversized(r) ==
    /\ pc[r] = "flush"
    /\ last_step.over
    /\ ~FlushDone(queue, last_step.removed_tokens)
    /\ EstimateText(Head(queue).content) <= token_limit
    /\ queue' = Tail(queue)
    /\ last_step' =
          [last_step EXCEPT
              !.removed_tokens = @ + EstimateText(Head(queue).content),
              !.absorbed = IF HasAbsorber(memory_blocks)
                           THEN Append(@, Head(queue)) ELSE @,
              !.warnings = IF HasAbsorber(memory_blocks)
                           THEN @ ELSE Append(@, Head(queue))]
    /\ UNCHANGED <<memory_blocks, pc, ev, out, history>>

\* a mutant: a turn that no block absorbs is dropped and nothing is recorded
flush_turnDropsSilently(r) ==
    /\ pc[r] = "flush"
    /\ last_step.over
    /\ ~FlushDone(queue, last_step.removed_tokens)
    /\ queue' = Tail(queue)
    /\ last_step' =
          [last_step EXCEPT
              !.removed_tokens = @ + EstimateText(Head(queue).content),
              !.absorbed = IF HasAbsorber(memory_blocks)
                           THEN Append(@, Head(queue)) ELSE @]
    /\ UNCHANGED <<memory_blocks, pc, ev, out, history>>

flush_turn(r) ==
    /\ pc[r] = "flush"
    /\ last_step.over
    /\ ~FlushDone(queue, last_step.removed_tokens)
    /\ queue' = Tail(queue)
    /\ last_step' =
          [last_step EXCEPT
              !.removed_tokens = @ + EstimateText(Head(queue).content),
              !.absorbed = IF HasAbsorber(memory_blocks)
                           THEN Append(@, Head(queue)) ELSE @,
              !.warnings = IF HasAbsorber(memory_blocks)
                           THEN @ ELSE Append(@, Head(queue))]
    /\ UNCHANGED <<memory_blocks, pc, ev, out, history>>

init_return(r) ==
    /\ pc[r] = "flush"
    /\ ~last_step.over \/ FlushDone(queue, last_step.removed_tokens)
    /\ pc' = [pc EXCEPT ![r] = IF ev[r] # NoEvent THEN "update" ELSE "chat"]
    /\ last_step' = [step |-> "init", run |-> r, message |-> last_step.message,
                     absorbed |-> last_step.absorbed,
                     warnings |-> last_step.warnings]
    /\ UNCHANGED <<memory_blocks, queue, ev, out, history>>

(***************************************************************************)
(* Spec: the runs follow one another, as in the notebook (each             *)
(* workflow.run is awaited before the next).  SpecOverlap: two runs on the *)
(* same workflow object may overlap; a step runs to its end before another *)
(* step starts (update_memory_context awaits nothing, the appends and      *)
(* reads of Memory are taken as one).                                      *)
(***************************************************************************)
Next ==
    \/ \E user_msg \in UserMsgs, new_file_paths \in SeqsUpTo(Paths, MaxPaths) :
       \E removed_file_paths \in SeqsUpTo(Paths, MaxPaths - Len(new_file_paths)) :
          init("run1", user_msg, new_file_paths, removed_file_paths)
    \/ update_memory_context("run1")
    \/ chat("run1")

Spec == Init /\ [][Next]_vars

NextOverlap ==
    \E r \in Runs :
        \/ \E user_msg \in OverlapMsgs,
              new_file_paths \in SeqsUpTo(Paths, MaxOverlapPaths) :
              \E removed_file_paths \in
                     SeqsUpTo(Paths, MaxOverlapPaths - Len(new_file_paths)) :
                 init(r, user_msg, new_file_paths, removed_file_paths)
        \/ update_memory_context(r)
        \/ chat(r)

SpecOverlap == Init /\ [][NextOverlap]_vars

\* SpecLists: the runs follow one another as in Spec, with longer lists of
\* paths and one user message
NextLists ==
    \/ \E user_msg \in OverlapMsgs,
          new_file_paths \in SeqsUpTo(Paths, MaxListed) :
       \E removed_file_paths \in
              SeqsUpTo(Paths, MaxListed - Len(new_file_paths)) :
          init("run1", user_msg, new_file_paths, removed_file_paths)
    \/ update_memory_context("run1")
    \/ chat("run1")

SpecLists == Init /\ [][NextLists]_vars

\* the workflow engine hands every event a step returns to the step that
\* accepts it: a run that waits for update_memory_context or chat gets it
SpecOverlapFair ==
    /\ SpecOverlap
    /\ \A r \in Runs :
          WF_vars(update_memory_context(r)) /\ WF_vars(chat(r))

(***************************************************************************)
(* SpecFlush: the runs follow one another and the flush pass of an append  *)
(* is taken turn by turn.  The event loop runs the coroutine of the step   *)
(* on until it returns: a turn of the pass and the return of the append    *)
(* are taken whenever they stay possible.                                  *)
(***************************************************************************)
NextFlush ==
    \/ \E user_msg \in UserMsgs,
          new_file_paths \in SeqsUpTo(Paths, MaxOverlapPaths) :
       \E removed_file_paths \in
              SeqsUpTo(Paths, MaxOverlapPaths - Len(new_file_paths)) :
          init_aput("run1", user_msg, new_file_paths, removed_file_paths)
    \/ flush_turn("run1")
    \/ init_return("run1")
    \/ update_memory_context("run1")
    \/ chat("run1")

SpecFlush ==
    /\ Init
    /\ [][NextFlush]_vars
    /\ WF_vars(flush_turn("run1"))
    /\ WF_vars(init_return("run1"))

(***************************************************************************)
(* SpecTwoRuns: workflow.run is called twice on the workflow object, the   *)
(* second call without awaiting the first, and the steps of the two runs   *)
(* interleave as in SpecOverlap.  The two user messages differ, so that    *)
(* the queue shows the order of the appends, and the arguments of the runs *)
(* are recorded in history.                                                *)
(***************************************************************************)
TwoRunsMsgs(r) == IF r = "run1" THEN {"short"} ELSE {"long"}

InitTwoRuns ==
    /\ memory_blocks = <<>>
    /\ queue = <<>>
    /\ pc = [r \in Runs |-> "idle"]
    /\ ev = [r \in Runs |-> NoEvent]
    /\ out = [r \in Runs |-> "none"]
    /\ last_step = [step |-> "none"]
    /\ history = NoHistory(TRUE)

NextTwoRuns ==
    \E r \in Runs :
        \/ \E user_msg \in TwoRunsMsgs(r),
              new_file_paths \in SeqsUpTo(Paths, MaxPaths) :
              \E removed_file_paths \in
                     SeqsUpTo(Paths, MaxPaths - Len(new_file_paths)) :
                 /\ history.input[r] = NoRun
                 /\ init(r, user_msg, new_file_paths, removed_file_paths)
        \/ update_memory_context(r)
        \/ chat(r)

SpecTwoRuns == InitTwoRuns /\ [][NextTwoRuns]_vars

(***************************************************************************)
(* What the claims speak of.                                               *)
(***************************************************************************)
\* the latest step was update_memory_context and it returned its ChatEvent
Updated == last_step.step = "update" /\ ~last_step.raised

\* the latest step was update_memory_context and it raised
UpdateRaised == last_step.step = "update" /\ last_step.raised

NamedIn(blocks, name) == \E i \in 1..Len(blocks) : blocks[i].name = name

\* the block names of the paths the latest update was to remove
RemovedNames ==
    { _path_to_block_name(p) : p \in Range(last_step.event.removed_file_paths) }

\* the block contents that the entries of a context hold
ContextMemory(chat_history) ==
    UNION { Range(chat_history[i].memory) : i \in 1..Len(chat_history) }

\* a step of the chat handler
ChatStep == \E r \in Runs : pc[r] = "chat" /\ pc'[r] = "idle"

\* a step of the init handler
AppendStep == \E r \in Runs : pc[r] = "idle" /\ pc'[r] # "idle"

\* the queue of an append step before its flush pass
Appended == Append(queue, last_step'.message)

IsSuffix(s, t) ==
    /\ Len(s) <= Len(t)
    /\ SubSeq(t, Len(t) - Len(s) + 1, Len(t)) = s

\* the path of the file a block was pinned from
PinnedFrom(block) ==
    IF block.static_content.type = "image"
    THEN block.static_content.path
    ELSE block.static_content.read_from

\* the paths listed both in new_file_paths and in removed_file_paths of the
\* event that run r waits to have handled
ListedTwice(r) ==
    Range(ev[r].new_file_paths) \cap Range(ev[r].removed_file_paths)

\* the run r has been started and has ended
Finished(r) == history.input[r] # NoRun /\ pc[r] = "idle"

\* the queue and the blocks that a run with the arguments input leaves when
\* it runs alone, from the queue and the blocks of m
RunAlone(m, input) ==
    LET settled == Aput(m.queue, m.memory_blocks, ChatMessage("user", input.user_msg))
        added == AddFiles(m.memory_blocks, BlockNames(m.memory_blocks),
                          input.new_file_paths)
    IN  [queue |-> settled.queue,
         memory_blocks |-> IF added.raised THEN added.blocks
                           ELSE RemoveFiles(added.blocks, input.removed_file_paths)]

\* what the two recorded runs leave when the second starts after the first
\* has ended
Sequential(first, second) ==
    RunAlone(RunAlone([queue |-> <<>>, memory_blocks |-> <<>>],
                      history.input[first]),
             history.input[second])

(***************************************************************************)
(* C1.  Adding a block with a name already present is rejected: when every *)
(* path of new_file_paths has a block name that already names a block and  *)
(* nothing is removed, update_memory_context leaves memory_blocks the list *)
(* it was.                                                                 *)
(***************************************************************************)
C1_NameConflictRejected ==
    ( /\ Updated
      /\ last_step.event.new_file_paths # <<>>
      /\ last_step.event.removed_file_paths = <<>>
      /\ \A p \in Range(last_step.event.new_file_paths) :
            NamedIn(last_step.before, _path_to_block_name(p)) )
    => memory_blocks = last_step.before

(***************************************************************************)
(* C2.  Block names are unique: no two elements of memory_blocks have the  *)
(* same name.                                                              *)
(***************************************************************************)
C2_BlockNamesUnique ==
    \A i, j \in 1..Len(memory_blocks) :
        i # j => memory_blocks[i].name # memory_blocks[j].name

C4_RaiseLeavesBlocksUnchanged ==
    [][ UpdateRaised' => memory_blocks' = memory_blocks ]_vars

(***************************************************************************)
(* C5.  Removing a block by a name that does not exist is a no-op, and     *)
(* removal is idempotent: an update that adds nothing and removes only     *)
(* paths that name no block leaves memory_blocks as it was, and after any  *)
(* update, removing one of its removed paths once more changes nothing.    *)
(***************************************************************************)
C5_RemoveMissingIsNoOp ==
    Updated =>
        /\ ( /\ last_step.event.new_file_paths = <<>>
             /\ \A p \in Range(last_step.event.removed_file_paths) :
                   ~NamedIn(last_step.before, _path_to_block_name(p)) )
           => memory_blocks = last_step.before
        /\ \A p \in Range(last_step.event.removed_file_paths) :
              RemoveFile(memory_blocks, p) = memory_blocks

\* a removal of a path that names no block has run, on a list with blocks
C5_Witness ==
    /\ Updated
    /\ last_step.event.new_file_paths = <<>>
    /\ last_step.event.removed_file_paths = <<PathPng>>
    /\ last_step.before # <<>>
    /\ ~NamedIn(last_step.before, _path_to_block_name(PathPng))
    /\ memory_blocks = last_step.before

(***************************************************************************)
(* C6.  After pinning file_a and file_b and unpinning file_a, the context  *)
(* holds file_b's content and not file_a's: after an update no block named *)
(* for a removed path remains and the blocks of other names that were      *)
(* there before remain, in their order; and the context a chat step reads  *)
(* holds the content of the blocks of memory_blocks and of no other.       *)
(***************************************************************************)
C6_UnpinRemovesOnlyThatFile ==
    /\ Updated =>
          LET kept == SelectSeq(last_step.before,
                                LAMBDA block : block.name \notin RemovedNames)
          IN  /\ \A i \in 1..Len(memory_blocks) :
                    memory_blocks[i].name \notin RemovedNames
              /\ Len(kept) <= Len(memory_blocks)
              /\ SubSeq(memory_blocks, 1, Len(kept)) = kept
    /\ last_step.step = "chat" =>
          ContextMemory(last_step.chat_history) = Range(RenderBlocks(memory_blocks))

\* file_a ("a.b.py") and file_b ("i.png") were pinned, file_a has been unpinned
C6_Witness ==
    /\ Updated
    /\ last_step.before = <<TextStaticBlock(PathDotPy), ImageStaticBlock(PathPng)>>
    /\ last_step.event.removed_file_paths = <<PathDotPy>>
    /\ memory_blocks = <<ImageStaticBlock(PathPng)>>

(***************************************************************************)
(* C7.  The response of the model is appended back to memory: after a chat *)
(* step the queue ends with an assistant turn that holds the response of   *)
(* the ResponseEvent.                                                      *)
(***************************************************************************)
C7_ResponseAppendedToMemory ==
    last_step.step = "chat" =>
        /\ queue # <<>>
        /\ queue[Len(queue)] = ChatMessage("assistant", out[last_step.run])

(***************************************************************************)
(* C8.  Reading the context is a pure projection: a chat step changes      *)
(* neither the queue nor memory_blocks, and the queue changes (an append,  *)
(* a flush) in init steps only.                                            *)
(***************************************************************************)
C8_ReadIsPureProjection ==
    [][ /\ ChatStep => (queue' = queue /\ memory_blocks' = memory_blocks)
        /\ queue' # queue => last_step'.step = "init" ]_vars

\* a chat step has read a context at a time when a flush would have evicted
C8_Witness ==
    /\ last_step.step = "chat"
    /\ OverBudget(queue, memory_blocks)
    /\ ~BelowRatio(queue)

C11_FlushTerminates ==
    /\ (pc["run1"] = "flush") ~> (pc["run1"] # "flush")
    /\ [][ (pc["run1"] = "flush" /\ pc'["run1"] # "flush") =>
              LET reported == last_step'.absorbed \o last_step'.warnings
                  before == reported \o queue'
              IN  EstimateText(Head(before).content) > token_limit =>
                      /\ reported # <<>>
                      /\ Head(reported) = Head(before)
                      /\ queue' # before ]_vars

\* an append has returned after its pass removed a turn that alone exceeds
\* the budget
C11_Witness ==
    /\ last_step.step = "init"
    /\ pc["run1"] # "flush"
    /\ last_step.warnings # <<>>
    /\ EstimateText(Head(last_step.warnings).content) > token_limit

C13_OverlappingRunsSerialized ==
    /\ (\A r \in Runs : Finished(r)) =>
           [queue |-> queue, memory_blocks |-> memory_blocks]
               \in {Sequential("run1", "run2"), Sequential("run2", "run1")}
    /\ last_step.step = "chat" =>
           history.partial_by \in {"none", last_step.run}


(***************************************************************************)
(* C14.  When the read of a block fails while the context is assembled,    *)
(* the chat step surfaces the error: no context is returned, not even a    *)
(* partial one, the run makes no ResponseEvent and ends, and the queue and *)
(* memory_blocks are as before the read.                                   *)
(***************************************************************************)
C14_FailedReadChangesNothing ==
    [][ last_step'.step = "read_failed" =>
            /\ "chat_history" \notin DOMAIN last_step'
            /\ out'[last_step'.run] = "error"
            /\ pc'[last_step'.run] = "idle"
            /\ queue' = queue
            /\ memory_blocks' = memory_blocks ]_vars

\* a read has failed with turns in the queue and a block that can be read
\* next to the one that cannot
C14_Witness ==
    /\ last_step.step = "read_failed"
    /\ queue # <<>>
    /\ \E i, j \in 1..Len(memory_blocks) :
          BlockReadCanFail(memory_blocks[i]) /\ ~BlockReadCanFail(memory_blocks[j])


(***************************************************************************)
(* C15.  With insert_method = "user" and a last queue entry of role user,  *)
(* the last user entry of the context that a chat step reads holds the     *)
(* content of that queue entry and the rendered content of the blocks, and *)
(* the read leaves the number of entries of the queue as it was.           *)
(***************************************************************************)
C15_MergedInsertIntoLastUser ==
    [][ ( /\ last_step'.step = "chat"
          /\ queue # <<>>
          /\ queue[Len(queue)].role = "user" ) =>
            LET chat_history == last_step'.chat_history
                users == { i \in 1..Len(chat_history) :
                             chat_history[i].role = "user" }
            IN  /\ users # {}
                /\ LET last == CHOOSE i \in users : \A j \in users : j <= i
                   IN  /\ chat_history[last].content = queue[Len(queue)].content
                       /\ chat_history[last].memory = RenderBlocks(memory_blocks)
                /\ Len(queue') = Len(queue) ]_vars

\* a context was read with two turns in the queue and two blocks to insert
C15_Witness ==
    /\ last_step.step = "chat"
    /\ Len(queue) = 2
    /\ queue[2].role = "user"
    /\ Len(memory_blocks) = 2
    /\ last_step.chat_history[2].memory = RenderBlocks(memory_blocks)


(***************************************************************************)
(* C17.  The steps of a run come in order.  A run starts with init, which  *)
(* appends one user turn and goes to update_memory_context exactly when    *)
(* one of the lists of its event is not empty, else to chat;               *)
(* update_memory_context goes to chat, or ends the run when it raises;     *)
(* chat comes last and ends the run, with a ResponseEvent unless it        *)
(* raises; and every run that was started ends.                            *)
(***************************************************************************)
C17_StepOrdering ==
    /\ \A r \in Runs : (pc[r] # "idle") ~> (pc[r] = "idle")
    /\ [][ \A r \in Runs : pc'[r] # pc[r] =>
              \/ /\ pc[r] = "idle"
                 /\ last_step' = [step |-> "init", run |-> r,
                                  message |-> last_step'.message]
                 /\ last_step'.message.role = "user"
                 /\ IsSuffix(queue', Appended)
                 /\ memory_blocks' = memory_blocks
                 /\ pc'[r] = IF ev'[r] # NoEvent THEN "update" ELSE "chat"
              \/ /\ pc[r] = "update"
                 /\ last_step'.step = "update" /\ last_step'.run = r
                 /\ queue' = queue
                 /\ IF last_step'.raised
                    THEN pc'[r] = "idle" /\ out'[r] = "error"
                    ELSE pc'[r] = "chat"
              \/ /\ pc[r] = "chat"
                 /\ pc'[r] = "idle"
                 /\ last_step'.run = r
                 /\ \/ last_step'.step = "chat" /\ out'[r] \in Responses
                    \/ last_step'.step = "read_failed" /\ out'[r] = "error"
       ]_vars

\* a run that went through update_memory_context has ended with its
\* ResponseEvent while the other run waits for its chat step
C17_Witness ==
    /\ last_step.step = "chat"
    /\ last_step.run = "run1"
    /\ pc["run1"] = "idle"
    /\ out["run1"] \in Responses
    /\ memory_blocks # <<>>
    /\ pc["run2"] = "chat"


(***************************************************************************)
(* C18.  Unpinning a path removes only the blocks pinned from that path:   *)
(* after an update that returned, every block that was there before the    *)
(* step and was pinned from a path that is not in removed_file_paths is    *)
(* still in memory_blocks.                                                 *)
(***************************************************************************)
C18_UnpinKeepsOtherPaths ==
    Updated =>
        \A i \in 1..Len(last_step.before) :
            PinnedFrom(last_step.before[i])
                    \notin Range(last_step.event.removed_file_paths)
                => \E j \in 1..Len(memory_blocks) :
                       memory_blocks[j] = last_step.before[i]


====
